---- MODULE Spec2Model ----
(***************************************************************************)
(* Model of the SO101 web-simulator follower (the bridge,                  *)
(* so101_websim_follower.py), its configuration and the reference          *)
(* simulator endpoint (sim_ws_server_example.py).                          *)
(*                                                                         *)
(* Joint positions and timestamps are Python floats in the source; they    *)
(* are modelled as integers (exact fixed-point units), so rounding error   *)
(* of float arithmetic is outside the model.  The joint list is            *)
(* configuration; two joints, "a" and "b", are used on both sides.         *)
(***************************************************************************)
EXTENDS Integers, Sequences, FiniteSets, TLC

(* ------------------------------ bounds --------------------------------- *)
\* positions and targets range over -MaxPos..MaxPos
MaxPos == 2
\* time.time() ranges over 0..MaxClock
MaxClock == 1
\* send_action is called at most MaxSeq times
MaxSeq == 2
\* the server accepts at most MaxConn connections of the bridge
MaxConn == 2
\* frames pending on the bridge's connection
MaxInbox == 1

(* --------------------------- program constants ------------------------- *)
\* connect(): for attempt in range(10)
Retries == 10
\* connect(): self._run(self._async_connect(), timeout=2.0)
ConnectTimeout == 2
\* get_observation(): self._run(..., timeout=0.0); _async_try_recv: wait_for(recv(), timeout=0.0)
PollTimeout == 0

\* config.joint_names (shortened to two joints)
joint_names == <<"a", "b">>
\* sim_ws_server_example.JOINT_NAMES (shortened to two joints)
JOINT_NAMES == <<"a", "b">>

Joints == {joint_names[i] : i \in 1..Len(joint_names)}
Vals == (-MaxPos)..MaxPos

Min2(x, y) == IF x <= y THEN x ELSE y
Max2(x, y) == IF x >= y THEN x ELSE y

(* ------------------------------ JSON ----------------------------------- *)
\* An optional value: <<>> is Python's None / an absent key, <<x>> is x.
None == <<>>
Some(x) == <<x>>

\* A JSON scalar of a frame: a number, or something float() rejects (null, "abc").
Num(n) == [k |-> "num", n |-> n]
NonNumeric == [k |-> "str", n |-> 0]

\* A JSON list (list |-> TRUE) or a JSON value that is no list (a bare number).
List(items) == [list |-> TRUE, items |-> items]
NoList == [list |-> FALSE, items |-> <<>>]

\* The text of one frame after json.loads: "invalid" does not parse, "array" parses
\* to a value with no .get, "object" parses to a dict with the keys below ("absent"
\* and None stand for a missing key).
Frame(type, mode, names, joint_pos, target, timestamp) ==
    [json |-> "object", type |-> type, mode |-> mode, names |-> names,
     joint_pos |-> joint_pos, target |-> target, timestamp |-> timestamp]
InvalidJson == [Frame("absent", "absent", None, None, None, None) EXCEPT !.json = "invalid"]
NonObject == [Frame("absent", "absent", None, None, None, None) EXCEPT !.json = "array"]
StateFrame(names, joint_pos, timestamp) ==
    Frame("state", "absent", names, joint_pos, None, timestamp)

\* dict(zip(ns, vs)) as the sequence of its items in iteration order: zip stops at
\* the shorter list, a repeated key keeps its first position and its last value.
RECURSIVE DictZip(_, _)
DictZip(ns, vs) ==
    IF ns = <<>> \/ vs = <<>> THEN <<>>
    ELSE LET n == Min2(Len(ns), Len(vs))
             rest == DictZip(SubSeq(ns, 1, n - 1), SubSeq(vs, 1, n - 1))
         IN  IF \E i \in 1..Len(rest) : rest[i][1] = ns[n]
             THEN [i \in 1..Len(rest) |->
                      IF rest[i][1] = ns[n] THEN <<ns[n], vs[n]>> ELSE rest[i]]
             ELSE Append(rest, <<ns[n], vs[n]>>)

(* ------------------------------ state ---------------------------------- *)
VARIABLES
    cfg,        \* the bridge's SO101WebSimFollowerConfig (immutable)
    ws,         \* self._ws: 0 is None, n > 0 the n-th connection made
    link,       \* the transport behind self._ws: "open" or "closed"
    inbox,      \* frames received on the transport and not yet read by recv()
    seq,        \* self._seq
    last_obs,   \* self._last_obs: [pos |-> [joint -> position], timestamp |-> t]
    cpc,        \* where the bridge is: "idle", or "connecting" (inside connect's loop)
    attempt,    \* connect(): attempts made so far by the running call (0 outside it)
    ret,        \* outcome of the last API call: what it returned, raised and logged
    payload,    \* send_action(): the last command frame built
    now,        \* time.time()
    conns,      \* connections the server has accepted from the bridge so far
    q,          \* the endpoint's module-level joint vector q
    conn,       \* per endpoint session: its transport, "none", "open" or "closed"
    hd,         \* per session: handle(ws), "off", "run" or "returned"
    rx,         \* per session: rx_loop, "off", "run", "done", "failed" (a frame made it
                \* raise) or "disconnected" (its iteration raised ConnectionClosed)
    tx,         \* per session: tx_loop, "off", "run" or "done"
    pub,        \* per session: the last state frame tx_loop sent (None before the first)
    log         \* the last two lines the server process printed, by kind

bridge_vars == <<cfg, ws, link, inbox, seq, last_obs, cpc, attempt, ret, payload, now, conns>>
endpoint_vars == <<q, conn, hd, rx, tx, pub, log>>
vars == <<bridge_vars, endpoint_vars>>

NoHandle == 0
is_connected == ws # NoHandle

(* --------------------------- configuration ----------------------------- *)
\* max_relative_target: None, a float applied to every joint, or a dict per joint.
RelNone == [kind |-> "none", cap |-> [jn \in Joints |-> 0]]
RelFloat(r) == [kind |-> "float", cap |-> [jn \in Joints |-> r]]
RelDict(d) == [kind |-> "dict", cap |-> d]

Config(mrt, lo, hi) == [max_relative_target |-> mrt, joint_min |-> lo, joint_max |-> hi]

\* The configurations explored: no limit, a relative limit per joint, absolute
\* bounds containing the initial position 0.0, absolute bounds that exclude it for
\* joint "a", their combinations, and one relative limit for all joints alone.
RelChoices == {RelNone, RelDict([jn \in Joints |-> IF jn = "a" THEN 1 ELSE 2])}
AbsChoices == {<<None, None>>,
               <<Some(<<-1, -1>>), Some(<<1, 1>>)>>,
               <<Some(<<2, -MaxPos>>), Some(<<2, 0>>)>>}
Configs ==
    {Config(r, ab[1], ab[2]) : r \in RelChoices, ab \in AbsChoices}
        \cup {Config(RelFloat(1), None, None)}

(* ----------------------- the bridge: helpers --------------------------- *)
\* d.get(k, default) of a dict d
Get(d, k, default) == IF k \in DOMAIN d THEN d[k] ELSE default

\* A key of an action dict: name + suffix, e.g. "a" + ".pos".
Key(name, suffix) == [name |-> name, suffix |-> suffix]

\* The result of an API call: the operation, the exception it raised ("none" when it
\* returned), the dict it returned (None when it returns nothing or raised: <<pos>>
\* for send_action, <<pos, timestamp>> for get_observation), and what it printed:
\* the WARN line of send_action and the error of "send failed: ...".
Ret(op, exc, val, warn, send) ==
    [op |-> op, exc |-> exc, val |-> val, warn |-> warn, send |-> send]
NoRet == Ret("none", "none", None, FALSE, "none")

\* a cache built with an entry for the first configured joint only
InitObs_first_joint_only(t) == [pos |-> [jn \in {joint_names[1]} |-> 0], timestamp |-> t]

\* __init__: every configured joint at 0.0, timestamp = time.time()
InitObs(t) == [pos |-> [jn \in Joints |-> 0], timestamp |-> t]

\* asyncio.wait_for(aw, timeout) as used by _run and _async_try_recv: with
\* timeout <= 0 the awaitable is wrapped in a task that is cancelled before its first
\* step, and TimeoutError is raised; the coroutine's body runs only if timeout > 0.
CoroutineRuns(timeout) == timeout > 0

(* ------------------------ the bridge: connect -------------------------- *)
\* self._run(self._async_connect(), timeout=2.0) for one attempt whose handshake
\* ends as `outcome`: "ok" (completes in time), "error" (raises, e.g. connection
\* refused), "slow" (still pending when the timeout expires).  _run turns the
\* TimeoutError of wait_for into a normal return of None.
RunConnect(outcome) ==
    IF ~CoroutineRuns(ConnectTimeout) THEN "returned None"
    ELSE CASE outcome = "ok" -> "handle stored"
           [] outcome = "error" -> "raised"
           [] OTHER -> "returned None"

\* connect() without its AlreadyConnected guard
ConnectCall_no_guard ==
    /\ cpc = "idle"
    /\ cpc' = "connecting"
    /\ attempt' = 0
    /\ ret' = NoRet
    /\ UNCHANGED <<cfg, ws, link, inbox, seq, last_obs, payload, now, conns>>

\* connect(), up to the loop: the AlreadyConnected guard.
ConnectCall ==
    /\ cpc = "idle"
    /\ IF is_connected
       THEN /\ ret' = Ret("connect", "AlreadyConnected", None, FALSE, "none")
            /\ UNCHANGED <<cpc, attempt>>
       ELSE /\ cpc' = "connecting"
            /\ attempt' = 0
            /\ ret' = NoRet
    /\ UNCHANGED <<cfg, ws, link, inbox, seq, last_obs, payload, now, conns>>

\* One iteration of connect()'s loop and, when the loop ends with it, the check
\* after the loop.  The try block has no exception after a "returned None", so the
\* loop breaks exactly as after a stored handle.
ConnectAttempt(outcome) ==
    /\ cpc = "connecting"
    /\ attempt < Retries
    /\ outcome = "ok" => conns < MaxConn
    /\ LET r == RunConnect(outcome)
           stored == r = "handle stored"
           loop_ends == r # "raised" \/ attempt + 1 = Retries
       IN  /\ attempt' = IF loop_ends THEN 0 ELSE attempt + 1
           /\ ws' = IF stored THEN conns + 1 ELSE ws
           /\ conns' = IF stored THEN conns + 1 ELSE conns
           /\ link' = IF stored THEN "open" ELSE link
           /\ cpc' = IF loop_ends THEN "idle" ELSE "connecting"
           /\ ret' = IF ~loop_ends THEN ret
                     ELSE IF stored THEN Ret("connect", "none", None, FALSE, "none")
                     ELSE Ret("connect", "ConnectionFailed", None, FALSE, "none")
    /\ UNCHANGED <<cfg, inbox, seq, last_obs, payload, now>>

(* ----------------------- the bridge: disconnect ------------------------ *)
\* disconnect() whose _async_disconnect clears the handle after close() instead of
\* in a finally block: a close() that raises leaves the handle in place
Disconnect_handle_kept_on_error(close_raises) ==
    /\ cpc = "idle"
    /\ IF ~is_connected
       THEN /\ ret' = Ret("disconnect", "NotConnected", None, FALSE, "none")
            /\ UNCHANGED <<ws, link, inbox>>
       ELSE /\ ws' = IF close_raises THEN ws ELSE NoHandle
            /\ link' = "closed"
            /\ inbox' = <<>>
            /\ ret' = Ret("disconnect", IF close_raises THEN "CloseError" ELSE "none",
                          None, FALSE, "none")
    /\ UNCHANGED <<cfg, seq, last_obs, cpc, attempt, payload, now, conns>>

\* disconnect() with _async_disconnect(): close() may raise; the handle is cleared in
\* the finally block.
Disconnect(close_raises) ==
    /\ cpc = "idle"
    /\ IF ~is_connected
       THEN /\ ret' = Ret("disconnect", "NotConnected", None, FALSE, "none")
            /\ UNCHANGED <<ws, link, inbox>>
       ELSE /\ ws' = NoHandle
            /\ link' = "closed"
            /\ inbox' = <<>>
            /\ ret' = Ret("disconnect", IF close_raises THEN "CloseError" ELSE "none",
                          None, FALSE, "none")
    /\ UNCHANGED <<cfg, seq, last_obs, cpc, attempt, payload, now, conns>>

(* -------------------- the bridge: get_observation ---------------------- *)
\* _async_try_recv(): no handle gives None; otherwise wait_for(self._ws.recv(),
\* timeout=0.0): a pending frame is returned (recv delivers pending frames before
\* it reports closure), ConnectionClosed clears the handle, TimeoutError gives None.
AsyncTryRecv(wsv, lnk, inb) ==
    LET nothing == [msg |-> None, ws |-> wsv, inbox |-> inb]
    IN  IF wsv = NoHandle THEN nothing
        ELSE IF ~CoroutineRuns(PollTimeout) THEN nothing
        ELSE IF inb # <<>> THEN [msg |-> Some(Head(inb)), ws |-> wsv, inbox |-> Tail(inb)]
        ELSE IF lnk = "closed" THEN [msg |-> None, ws |-> NoHandle, inbox |-> <<>>]
        ELSE nothing

\* self._run(self._async_try_recv(), timeout=0.0)
TryRecv(wsv, lnk, inb) ==
    IF CoroutineRuns(PollTimeout) THEN AsyncTryRecv(wsv, lnk, inb)
    ELSE [msg |-> None, ws |-> wsv, inbox |-> inb]

\* for jn, v in name_to_val.items(): ... self._last_obs[key] = float(v)
\* float() of a non-numeric value raises and ends the loop; what was written stays.
RECURSIVE UpdatePositions(_, _)
UpdatePositions(pos, items) ==
    IF items = <<>> THEN [pos |-> pos, raised |-> FALSE]
    ELSE LET jn == items[1][1]
             v == items[1][2]
         IN  IF jn \notin DOMAIN pos THEN UpdatePositions(pos, Tail(items))
             ELSE IF v.k # "num" THEN [pos |-> pos, raised |-> TRUE]
             ELSE UpdatePositions([pos EXCEPT ![jn] = v.n], Tail(items))

\* name_to_val of a state frame: by the frame's names when both keys are present,
\* by the configured joint order when only a joint_pos list is, else empty.
\* zip() of a value that is no list raises.
NameToVal(data) ==
    IF data.names # None /\ data.joint_pos # None
    THEN IF data.joint_pos[1].list
         THEN [raised |-> FALSE, items |-> DictZip(data.names[1], data.joint_pos[1].items)]
         ELSE [raised |-> TRUE, items |-> <<>>]
    ELSE IF data.joint_pos # None /\ data.joint_pos[1].list
         THEN [raised |-> FALSE, items |-> DictZip(joint_names, data.joint_pos[1].items)]
         ELSE [raised |-> FALSE, items |-> <<>>]

\* get_observation() from `if msg:` on: the cache after the message `msg` (None or
\* one frame) was handled at time t.  Every exception is swallowed.
ProcessMsg(obs, msg, t) ==
    IF msg = None THEN obs
    ELSE LET data == msg[1]
         IN  IF data.json # "object" THEN obs
             ELSE IF data.type # "state" THEN obs
             ELSE LET ntv == NameToVal(data)
                      upd == UpdatePositions(obs.pos, ntv.items)
                  IN  IF ntv.raised THEN obs
                      ELSE IF upd.raised THEN [obs EXCEPT !.pos = upd.pos]
                      ELSE IF data.timestamp = None
                           THEN [pos |-> upd.pos, timestamp |-> t]
                      ELSE IF data.timestamp[1].k # "num"
                           THEN [obs EXCEPT !.pos = upd.pos]
                      ELSE [pos |-> upd.pos, timestamp |-> data.timestamp[1].n]

\* get_observation()
GetObservation ==
    /\ cpc = "idle"
    /\ LET r == TryRecv(ws, link, inbox)
           obs == ProcessMsg(last_obs, r.msg, now)
       IN  /\ ws' = r.ws
           /\ inbox' = r.inbox
           /\ last_obs' = obs
           /\ ret' = Ret("get_observation", "none", <<obs.pos, obs.timestamp>>, FALSE, "none")
    /\ UNCHANGED <<cfg, link, seq, cpc, attempt, payload, now, conns>>

(* ----------------------- the bridge: send_action ----------------------- *)
\* goal_pos without the endswith(".pos") filter: every key of the action counts
GoalPos_any_key(action) ==
    LET named == {k.name : k \in DOMAIN action}
    IN  [jn \in named |-> action[CHOOSE k \in DOMAIN action : k.name = jn]]

\* goal_pos = {k.removesuffix(".pos"): float(v) for k, v in action.items()
\*             if k.endswith(".pos")}
GoalPos(action) ==
    LET named == {k.name : k \in {k \in DOMAIN action : k.suffix = ".pos"}}
    IN  [jn \in named |-> action[Key(jn, ".pos")]]

\* goal_present built with the goal in the place of the present position
GoalPresent_goal_as_present(goal_pos, obs) ==
    [jn \in Joints |-> <<Get(goal_pos, jn, obs.pos[jn]), Get(goal_pos, jn, obs.pos[jn])>>]

\* goal_present = {jn: (goal_pos.get(jn, present[jn]), present[jn]) for jn in joint_names}
GoalPresent(goal_pos, obs) ==
    [jn \in Joints |-> <<Get(goal_pos, jn, obs.pos[jn]), obs.pos[jn]>>]

\* lerobot's ensure_safe_goal_position(goal_present_pos, max_relative_target): each
\* goal is moved toward its present position until |goal - present| <= limit.
ensure_safe_goal_position(goal_present, mrt) ==
    [jn \in DOMAIN goal_present |->
        LET diff == goal_present[jn][1] - goal_present[jn][2]
            safe_diff == Max2(Min2(diff, mrt.cap[jn]), -mrt.cap[jn])
        IN  goal_present[jn][2] + safe_diff]

\* send_action without the relative safety block
RelativeSafety_not_applied(goal_pos, obs, c) == goal_pos

\* the optional relative safety of send_action
RelativeSafety(goal_pos, obs, c) ==
    IF c.max_relative_target.kind # "none"
    THEN ensure_safe_goal_position(GoalPresent(goal_pos, obs), c.max_relative_target)
    ELSE goal_pos

\* the clamp without its upper bound: max(val, lo)
Clamp_lower_only(val, lo, hi) == Max2(val, lo)

\* clamped[jn] = min(max(val, lo), hi)
Clamp(val, lo, hi) == Min2(Max2(val, lo), hi)

\* the optional absolute clamp of send_action (both lists must be set and non-empty)
AbsoluteClamp(goal_pos, obs, c) ==
    IF c.joint_min # None /\ c.joint_min[1] # <<>> /\ c.joint_max # None /\ c.joint_max[1] # <<>>
    THEN [jn \in Joints |->
            LET i == CHOOSE i \in 1..Len(joint_names) : joint_names[i] = jn
            IN  Clamp(Get(goal_pos, jn, obs.pos[jn]), c.joint_min[1][i], c.joint_max[1][i])]
    ELSE goal_pos

\* the target list with 0.0 for a joint without a goal: goal_pos.get(jn, 0.0)
Target_default_zero(goal_pos, obs) ==
    [i \in 1..Len(joint_names) |-> Get(goal_pos, joint_names[i], 0)]

\* payload["target"] = [goal_pos.get(jn, self._last_obs[f"{jn}.pos"]) for jn in joint_names]
Target(goal_pos, obs) ==
    [i \in 1..Len(joint_names) |-> Get(goal_pos, joint_names[i], obs.pos[joint_names[i]])]

\* The target list send_action builds for `action` with the cache `obs`.
Shape(action, obs, c) ==
    Target(AbsoluteClamp(RelativeSafety(GoalPos(action), obs, c), obs, c), obs)

\* _async_send that keeps the handle when the transport is closed
AsyncSend_keeps_handle(wsv, lnk) ==
    IF wsv = NoHandle THEN [exc |-> "NotConnected", ws |-> wsv]
    ELSE IF lnk = "closed" THEN [exc |-> "TransportClosed", ws |-> wsv]
    ELSE [exc |-> "none", ws |-> wsv]

\* _async_send(payload): no handle raises ("websocket not connected"); a closed
\* transport raises ConnectionClosed after the handle is cleared.
AsyncSend(wsv, lnk) ==
    IF wsv = NoHandle THEN [exc |-> "NotConnected", ws |-> wsv]
    ELSE IF lnk = "closed" THEN [exc |-> "TransportClosed", ws |-> NoHandle]
    ELSE [exc |-> "none", ws |-> wsv]

\* the command frame numbered with the counter as it was before the increment
Command_seq_before_increment(n, target, t) ==
    [type |-> "cmd", seq |-> n - 1, mode |-> "joint_position", names |-> joint_names,
     target |-> target, timestamp |-> t]

\* The command frame send_action builds.
Command(n, target, t) ==
    [type |-> "cmd", seq |-> n, mode |-> "joint_position", names |-> joint_names,
     target |-> target, timestamp |-> t]

\* send_action that returns after a failed send without the optimistic update
SendAction_no_update_on_failure(action) ==
    /\ cpc = "idle"
    /\ seq < MaxSeq
    /\ LET target == Shape(action, last_obs, cfg)
           sent == AsyncSend(ws, link)
           pos == [jn \in Joints |->
                     target[CHOOSE i \in 1..Len(joint_names) : joint_names[i] = jn]]
       IN  /\ seq' = seq + 1
           /\ payload' = Some(Command(seq + 1, target, now))
           /\ ws' = sent.ws
           /\ inbox' = IF sent.ws = NoHandle THEN <<>> ELSE inbox
           /\ last_obs' = IF sent.exc = "none" THEN [pos |-> pos, timestamp |-> now]
                          ELSE last_obs
           /\ ret' = Ret("send_action", "none", <<pos>>, GoalPos(action) = <<>>, sent.exc)
    /\ UNCHANGED <<cfg, link, cpc, attempt, now, conns>>

\* send_action(action)
SendAction(action) ==
    /\ cpc = "idle"
    /\ seq < MaxSeq
    /\ LET target == Shape(action, last_obs, cfg)
           sent == AsyncSend(ws, link)
           pos == [jn \in Joints |->
                     target[CHOOSE i \in 1..Len(joint_names) : joint_names[i] = jn]]
       IN  /\ seq' = seq + 1
           /\ payload' = Some(Command(seq + 1, target, now))
           /\ ws' = sent.ws
           /\ inbox' = IF sent.ws = NoHandle THEN <<>> ELSE inbox
           /\ last_obs' = [pos |-> pos, timestamp |-> now]
           /\ ret' = Ret("send_action", "none", <<pos>>, GoalPos(action) = <<>>, sent.exc)
    /\ UNCHANGED <<cfg, link, cpc, attempt, now, conns>>

(* --------------------------- the environment --------------------------- *)
\* time passes
Tick ==
    /\ now < MaxClock
    /\ now' = now + 1
    /\ UNCHANGED <<cfg, ws, link, inbox, seq, last_obs, cpc, attempt, ret, payload, conns>>

\* the peer or the network closes the bridge's transport
TransportClose ==
    /\ is_connected
    /\ link = "open"
    /\ link' = "closed"
    /\ UNCHANGED <<cfg, ws, inbox, seq, last_obs, cpc, attempt, ret, payload, now, conns>>

\* the server sends a frame to the bridge
ServerSend(frame) ==
    /\ is_connected
    /\ link = "open"
    /\ Len(inbox) < MaxInbox
    /\ inbox' = Append(inbox, frame)
    /\ UNCHANGED <<cfg, ws, link, seq, last_obs, cpc, attempt, ret, payload, now, conns>>

(* ------------------------------ inputs --------------------------------- *)
\* Actions given to send_action: targets for any subset of the configured joints,
\* and, for those without joint "b", the same with one more key that names no
\* configured joint ("zz.pos") or lacks the ".pos" suffix ("a").
TargetVals == {-MaxPos, MaxPos}
JointActions == UNION {[{Key(jn, ".pos") : jn \in D} -> TargetVals] : D \in SUBSET Joints}
ExtraKeys == {Key("zz", ".pos") :> MaxPos, Key("a", "") :> MaxPos}
Actions ==
    JointActions \cup {g @@ e : g \in {h \in JointActions : Key("b", ".pos") \notin DOMAIN h},
                               e \in ExtraKeys}

\* The state frame the server sends to the bridge, as tx_loop builds it: the
\* server's joint names, its current q and the time of sending.
ServerFrames == {StateFrame(Some(JOINT_NAMES), Some(List(q)), Some(Num(now)))}

(* ---------------------------- the endpoint ----------------------------- *)
Sessions == {"A", "B"}

\* q = [0.0]*len(JOINT_NAMES)
InitQ == [i \in 1..Len(JOINT_NAMES) |-> Num(0)]

CmdFrame(mode, target) == Frame("cmd", mode, Some(JOINT_NAMES), None, target, Some(Num(0)))

\* f"{v:+.3f}" for v in q[:6]: formatting raises for a value that is no number
Formats(vec) == \A i \in 1..Len(vec) : vec[i].k = "num"

\* rx_loop without the length check on the target list
RxStep_no_length_check(qv, msg) ==
    IF msg.json = "invalid" THEN [line |-> "bad json", q |-> qv, raised |-> FALSE]
    ELSE IF msg.json # "object" THEN [line |-> "none", q |-> qv, raised |-> TRUE]
    ELSE IF msg.type # "cmd" THEN [line |-> "non-cmd message", q |-> qv, raised |-> FALSE]
    ELSE IF msg.mode # "joint_position"
         THEN [line |-> "unsupported mode", q |-> qv, raised |-> FALSE]
    ELSE LET tgt == IF msg.target = None THEN List(<<>>) ELSE msg.target[1]
         IN  IF ~tgt.list THEN [line |-> "none", q |-> qv, raised |-> TRUE]
             ELSE IF ~Formats(tgt.items)
                  THEN [line |-> "none", q |-> tgt.items, raised |-> TRUE]
             ELSE [line |-> "cmd", q |-> tgt.items, raised |-> FALSE]

\* rx_loop that writes the target joint by joint and has written only the first
\* joint when the iteration yields: q[0] = tgt[0]
RxStep_partial_write(qv, msg) ==
    IF msg.json = "invalid" THEN [line |-> "bad json", q |-> qv, raised |-> FALSE]
    ELSE IF msg.json # "object" THEN [line |-> "none", q |-> qv, raised |-> TRUE]
    ELSE IF msg.type # "cmd" THEN [line |-> "non-cmd message", q |-> qv, raised |-> FALSE]
    ELSE IF msg.mode # "joint_position"
         THEN [line |-> "unsupported mode", q |-> qv, raised |-> FALSE]
    ELSE LET tgt == IF msg.target = None THEN List(<<>>) ELSE msg.target[1]
         IN  IF ~tgt.list THEN [line |-> "none", q |-> qv, raised |-> TRUE]
             ELSE IF Len(tgt.items) # Len(JOINT_NAMES)
                  THEN [line |-> "bad target len", q |-> qv, raised |-> FALSE]
             ELSE [line |-> "cmd", q |-> [qv EXCEPT ![1] = tgt.items[1]], raised |-> FALSE]

\* One iteration of rx_loop's `async for msg in ws` for the frame msg: the line it
\* prints ("none" when it raises first), the new q, and whether an exception leaves
\* the loop.  d.get of a value that
\* is no dict raises; len() of a target that has no length raises; the log line of an
\* applied command is formatted after q[:] = tgt.
RxStep(qv, msg) ==
    IF msg.json = "invalid" THEN [line |-> "bad json", q |-> qv, raised |-> FALSE]
    ELSE IF msg.json # "object" THEN [line |-> "none", q |-> qv, raised |-> TRUE]
    ELSE IF msg.type # "cmd" THEN [line |-> "non-cmd message", q |-> qv, raised |-> FALSE]
    ELSE IF msg.mode # "joint_position"
         THEN [line |-> "unsupported mode", q |-> qv, raised |-> FALSE]
    ELSE LET tgt == IF msg.target = None THEN List(<<>>) ELSE msg.target[1]
         IN  IF ~tgt.list THEN [line |-> "none", q |-> qv, raised |-> TRUE]
             ELSE IF Len(tgt.items) # Len(JOINT_NAMES)
                  THEN [line |-> "bad target len", q |-> qv, raised |-> FALSE]
             ELSE IF ~Formats(tgt.items)
                  THEN [line |-> "none", q |-> tgt.items, raised |-> TRUE]
             ELSE [line |-> "cmd", q |-> tgt.items, raised |-> FALSE]

Last2(lines, line) == IF Len(lines) < 2 THEN Append(lines, line) ELSE <<lines[2], line>>

\* websockets.serve accepts a connection and starts handle(ws), which prints
\* "client connected" and starts rx_loop and tx_loop with asyncio.gather
Accept(s) ==
    /\ conn[s] = "none"
    /\ conn' = [conn EXCEPT ![s] = "open"]
    /\ hd' = [hd EXCEPT ![s] = "run"]
    /\ rx' = [rx EXCEPT ![s] = "run"]
    /\ tx' = [tx EXCEPT ![s] = "run"]
    /\ log' = Last2(log, "client connected")
    /\ UNCHANGED <<q, pub>>

\* rx_loop handles the frame msg that `async for msg in ws` yields: a frame that
\* arrives on the open connection, or, once the connection is closed, one that was
\* queued before the closure (queued frames are yielded before the iteration ends)
RxLoop(s, msg) ==
    /\ conn[s] \in {"open", "closed"}
    /\ rx[s] = "run"
    /\ LET r == RxStep(q, msg)
       IN  /\ q' = r.q
           /\ rx' = [rx EXCEPT ![s] = IF r.raised THEN "failed" ELSE "run"]
           /\ log' = IF r.raised THEN log ELSE Last2(log, r.line)
    /\ UNCHANGED <<conn, hd, tx, pub>>

\* rx_loop's `async for msg in ws` ends when the connection is closed and no queued
\* frame is left: after a
\* normal closure the iteration stops and rx_loop returns; after an abnormal one the
\* iteration raises ConnectionClosed out of rx_loop
RxEnd(s, abnormal) ==
    /\ conn[s] = "closed"
    /\ rx[s] = "run"
    /\ rx' = [rx EXCEPT ![s] = IF abnormal THEN "disconnected" ELSE "done"]
    /\ UNCHANGED <<q, conn, hd, tx, pub, log>>

\* tx_loop that publishes only once a command was logged
TxLoop_waits_for_command(s) ==
    /\ tx[s] = "run"
    /\ IF conn[s] = "open"
       THEN /\ pub' = IF "cmd" \in {log[i] : i \in 1..Len(log)}
                      THEN [pub EXCEPT ![s] = Some(StateFrame(Some(JOINT_NAMES), Some(List(q)),
                                                              Some(Num(now))))]
                      ELSE pub
            /\ tx' = tx
       ELSE /\ tx' = [tx EXCEPT ![s] = "done"]
            /\ pub' = pub
    /\ UNCHANGED <<q, conn, hd, rx, log>>

\* one iteration of tx_loop: the state frame with the current q is sent, or
\* ConnectionClosed ends the loop
TxLoop(s) ==
    /\ tx[s] = "run"
    /\ IF conn[s] = "open"
       THEN /\ pub' = [pub EXCEPT ![s] = Some(StateFrame(Some(JOINT_NAMES), Some(List(q)),
                                                           Some(Num(now))))]
            /\ tx' = tx
       ELSE /\ tx' = [tx EXCEPT ![s] = "done"]
            /\ pub' = pub
    /\ UNCHANGED <<q, conn, hd, rx, log>>

\* handle(ws) that returns only when both loops ended, not when one raised
HandleReturn_waits_for_both(s) ==
    /\ hd[s] = "run"
    /\ rx[s] = "done" /\ tx[s] = "done"
    /\ hd' = [hd EXCEPT ![s] = "returned"]
    /\ conn' = [conn EXCEPT ![s] = "closed"]
    /\ log' = log
    /\ UNCHANGED <<q, rx, tx, pub>>

\* handle(ws) returns when gather does: as soon as rx_loop raised, with tx_loop
\* still running, or when both loops ended.  ConnectionClosed is printed as
\* "client disconnected", any other exception as "handler exception"; the server
\* then closes the connection
HandleReturn(s) ==
    /\ hd[s] = "run"
    /\ rx[s] \in {"failed", "disconnected"} \/ (rx[s] = "done" /\ tx[s] = "done")
    /\ hd' = [hd EXCEPT ![s] = "returned"]
    /\ conn' = [conn EXCEPT ![s] = "closed"]
    /\ log' = IF rx[s] = "failed" THEN Last2(log, "handler exception")
              ELSE IF rx[s] = "disconnected" THEN Last2(log, "client disconnected")
              ELSE log
    /\ UNCHANGED <<q, rx, tx, pub>>

\* the client or the network closes the session's transport
SessionClose(s) ==
    /\ conn[s] = "open"
    /\ conn' = [conn EXCEPT ![s] = "closed"]
    /\ UNCHANGED <<q, hd, rx, tx, pub, log>>

\* Frames a client sends to the endpoint.
GoodTargets == {<<Num(1), Num(MaxPos)>>, <<Num(MaxPos), Num(1)>>}
CmdFrames ==
    {InvalidJson, NonObject,
     Frame("state", "absent", Some(JOINT_NAMES), Some(List(<<Num(1), Num(1)>>)), None, None),
     Frame("absent", "joint_position", None, None, Some(List(<<Num(1), Num(1)>>)), None),
     CmdFrame("other", Some(List(<<Num(1), Num(1)>>))),
     CmdFrame("absent", Some(List(<<Num(1), Num(1)>>))),
     CmdFrame("joint_position", None),
     CmdFrame("joint_position", Some(NoList)),
     CmdFrame("joint_position", Some(List(<<>>))),
     CmdFrame("joint_position", Some(List(<<Num(1)>>))),
     CmdFrame("joint_position", Some(List(<<Num(1), Num(1), Num(1)>>))),
     CmdFrame("joint_position", Some(List(<<NonNumeric, Num(1)>>)))}
        \cup {CmdFrame("joint_position", Some(List(t))) : t \in GoodTargets}

\* Frames of every shape get_observation's message handling distinguishes.
ObsNames == {<<"a", "b">>, <<"b", "a">>, <<"a">>, <<"a", "zz">>, <<"zz", "b", "a">>, <<"a", "a">>}
ObsPositions ==
    {<<>>, <<Num(1)>>, <<Num(1), Num(MaxPos)>>, <<Num(1), Num(MaxPos), Num(-1)>>,
     <<NonNumeric, Num(1)>>, <<Num(1), NonNumeric>>}
ObsFrames ==
    {InvalidJson, NonObject}
        \cup {Frame(t, "absent", n, Some(List(<<Num(1), Num(MaxPos)>>)), None, None) :
                 t \in {"absent", "cmd"}, n \in {None, Some(joint_names)}}
        \cup {StateFrame(n, p, t) :
                 n \in {None} \cup {Some(x) : x \in ObsNames},
                 p \in {None, Some(NoList)} \cup {Some(List(x)) : x \in ObsPositions},
                 t \in {None, Some(Num(MaxClock)), Some(NonNumeric)}}

(* --------------------------- specifications ---------------------------- *)
InitBridge ==
    /\ cfg \in Configs
    /\ ws = NoHandle
    /\ link = "closed"
    /\ inbox = <<>>
    /\ seq = 0
    /\ now = 0
    /\ last_obs = InitObs(0)
    /\ cpc = "idle"
    /\ attempt = 0
    /\ ret = NoRet
    /\ payload = None
    /\ conns = 0

\* main(): the output of the process once the server is running
ServerRunning == <<"server running">>

InitEndpoint ==
    /\ q = InitQ
    /\ conn = [s \in Sessions |-> "none"]
    /\ hd = [s \in Sessions |-> "off"]
    /\ rx = [s \in Sessions |-> "off"]
    /\ tx = [s \in Sessions |-> "off"]
    /\ pub = [s \in Sessions |-> None]
    /\ log = ServerRunning

\* The bridge and its transport.
Init == InitBridge /\ InitEndpoint

Next ==
    \/ ConnectCall /\ UNCHANGED endpoint_vars
    \/ \E outcome \in {"ok", "error", "slow"} : ConnectAttempt(outcome) /\ UNCHANGED endpoint_vars
    \/ \E close_raises \in BOOLEAN : Disconnect(close_raises) /\ UNCHANGED endpoint_vars
    \/ GetObservation /\ UNCHANGED endpoint_vars
    \/ \E action \in Actions : SendAction(action) /\ UNCHANGED endpoint_vars
    \/ Tick /\ UNCHANGED endpoint_vars
    \/ TransportClose /\ UNCHANGED endpoint_vars
    \/ \E frame \in ServerFrames : ServerSend(frame) /\ UNCHANGED endpoint_vars

Spec == Init /\ [][Next]_vars

\* The endpoint with two sessions.
InitE == InitBridge /\ cfg = Config(RelNone, None, None) /\ InitEndpoint

NextE ==
    \/ \E s \in Sessions : Accept(s) /\ UNCHANGED bridge_vars
    \/ \E s \in Sessions : \E msg \in CmdFrames : RxLoop(s, msg) /\ UNCHANGED bridge_vars
    \/ \E s \in Sessions : \E abnormal \in BOOLEAN : RxEnd(s, abnormal) /\ UNCHANGED bridge_vars
    \/ \E s \in Sessions : TxLoop(s) /\ UNCHANGED bridge_vars
    \/ \E s \in Sessions : HandleReturn(s) /\ UNCHANGED bridge_vars
    \/ \E s \in Sessions : SessionClose(s) /\ UNCHANGED bridge_vars

SpecEndpoint == InitE /\ [][NextE]_vars

\* The endpoint under the scheduling of the event loop: a task that is ready to run
\* is run.  tx_loop wakes up from its sleep, rx_loop from a closed connection, and
\* handle from the end of gather.
SpecEndpointFair ==
    /\ InitE
    /\ [][NextE]_vars
    /\ \A s \in Sessions :
          /\ WF_vars(TxLoop(s) /\ UNCHANGED bridge_vars)
          /\ WF_vars((\E abnormal \in BOOLEAN : RxEnd(s, abnormal)) /\ UNCHANGED bridge_vars)
          /\ WF_vars(HandleReturn(s) /\ UNCHANGED bridge_vars)

\* The cache under observe and act calls, for every frame shape: a bridge without
\* limits whose connect() has just returned, with the cache of its construction,
\* is sent one frame, polls and sends commands.
InitO ==
    /\ InitEndpoint
    /\ cfg = Config(RelNone, None, None)
    /\ ws = 1
    /\ conns = 1
    /\ link = "open"
    /\ inbox = <<>>
    /\ seq = 0
    /\ now = 0
    /\ last_obs = InitObs(0)
    /\ cpc = "idle"
    /\ attempt = 0
    /\ ret = Ret("connect", "none", None, FALSE, "none")
    /\ payload = None

\* one frame arrives while none is pending
Deliver(frame) ==
    /\ inbox = <<>>
    /\ ServerSend(frame)

NextO ==
    \/ \E frame \in ObsFrames : Deliver(frame) /\ UNCHANGED endpoint_vars
    \/ GetObservation /\ UNCHANGED endpoint_vars
    \/ \E action \in JointActions : SendAction(action) /\ UNCHANGED endpoint_vars
    \/ Tick /\ UNCHANGED endpoint_vars

SpecObs == InitO /\ [][NextO]_vars

\* Shaping of commands: a bridge that has just connected, under every configuration
\* of limits, is given every action; a state frame may arrive and be polled for
\* in between.
InitS ==
    /\ InitEndpoint
    /\ cfg \in Configs
    /\ ws = 1
    /\ conns = 1
    /\ link = "open"
    /\ inbox = <<>>
    /\ seq = 0
    /\ now = 0
    /\ last_obs = InitObs(0)
    /\ cpc = "idle"
    /\ attempt = 0
    /\ ret = Ret("connect", "none", None, FALSE, "none")
    /\ payload = None

NextS ==
    \/ \E frame \in ServerFrames : Deliver(frame) /\ UNCHANGED endpoint_vars
    \/ GetObservation /\ UNCHANGED endpoint_vars
    \/ \E action \in Actions : SendAction(action) /\ UNCHANGED endpoint_vars
    \/ Tick /\ UNCHANGED endpoint_vars

SpecShape == InitS /\ [][NextS]_vars

(* ------------------------------- claims -------------------------------- *)
\* the position list of a cache, in the configured joint order
PosSeq(pos) == [i \in 1..Len(joint_names) |-> pos[joint_names[i]]]
Abs(x) == IF x < 0 THEN -x ELSE x
\* `if self.config.joint_min and self.config.joint_max`: both given and not empty
AbsConfigured(c) ==
    /\ c.joint_min # None /\ c.joint_min[1] # <<>>
    /\ c.joint_max # None /\ c.joint_max[1] # <<>>
RelConfigured(c) == c.max_relative_target.kind # "none"
\* a step that is a call of send_action: the only operation that increments _seq
SendStep == seq' = seq + 1
\* the actions without a target entry: no key ends in ".pos"
EmptyActions == {action \in Actions : GoalPos(action) = <<>>}

\* C1: connect() on a bridge with no handle makes up to 10 attempts: an attempt that
\* fails or times out is followed by another one until 10 were made; connect()
\* returns normally only with a handle stored, and raises ConnectionFailed only after
\* 10 unsuccessful attempts, leaving no handle.
C1_ConnectUsesAllAttempts ==
    [][cpc = "connecting" =>
          /\ (ws' = NoHandle /\ attempt + 1 < Retries) => cpc' = "connecting"
          /\ (cpc' = "idle" /\ ret'.exc = "none") => ws' # NoHandle
          /\ (cpc' = "idle" /\ ret'.exc = "ConnectionFailed")
                => (attempt + 1 = Retries /\ ws' = NoHandle)]_vars

\* A state frame the claims call valid: a JSON object of type "state" whose joint_pos
\* is a list of numbers, with distinct names of the same length when names are given
\* and one position per configured joint when they are not.
ValidStateFrame(f) ==
    /\ f.json = "object"
    /\ f.type = "state"
    /\ f.joint_pos # None
    /\ f.joint_pos[1].list
    /\ \A i \in 1..Len(f.joint_pos[1].items) : f.joint_pos[1].items[i].k = "num"
    /\ f.timestamp # None => f.timestamp[1].k = "num"
    /\ LET ns == IF f.names = None THEN joint_names ELSE f.names[1]
       IN  /\ Len(ns) = Len(f.joint_pos[1].items)
           /\ \A i, j \in 1..Len(ns) : ns[i] = ns[j] => i = j

\* The positions a snapshot shows after the valid frame f: the frame's value for a
\* joint it names (by name, or by index in the configured order), the old one else.
Reflected(old, f) ==
    LET ns == IF f.names = None THEN joint_names ELSE f.names[1]
    IN  [jn \in Joints |->
            IF \E i \in 1..Len(ns) : ns[i] = jn
            THEN f.joint_pos[1].items[CHOOSE i \in 1..Len(ns) : ns[i] = jn].n
            ELSE old[jn]]

\* C2: when a valid state frame is pending, get_observation() consumes exactly that
\* one frame and returns a snapshot with the frame's positions.
C2_ObserveConsumesPendingFrame ==
    [][(GetObservation /\ is_connected /\ inbox # <<>> /\ ValidStateFrame(Head(inbox)))
          => /\ inbox' = Tail(inbox)
             /\ ret'.val[1] = Reflected(last_obs.pos, Head(inbox))]_vars

\* A frame C3 lists as malformed: invalid JSON, a JSON value that is no object, no
\* type, names and joint_pos of different lengths, or a non-numeric position.
MalformedFrame(f) ==
    \/ f.json # "object"
    \/ f.type = "absent"
    \/ /\ f.type = "state"
       /\ f.joint_pos # None
       /\ f.joint_pos[1].list
       /\ \/ f.names # None /\ Len(f.names[1]) # Len(f.joint_pos[1].items)
          \/ \E i \in 1..Len(f.joint_pos[1].items) : f.joint_pos[1].items[i].k # "num"

\* C3: a malformed state frame is dropped as a whole: a call of get_observation
\* with such a frame pending processes it, so the frame is taken off the connection,
\* and every cached position and the timestamp are as before the call, the snapshot
\* returned is the cache, and nothing is raised.
C3_MalformedFrameDropped ==
    [][(GetObservation /\ inbox # <<>> /\ MalformedFrame(Head(inbox)))
          => /\ inbox' = Tail(inbox)
             /\ last_obs' = last_obs
             /\ ret'.exc = "none"
             /\ ret'.val = <<last_obs.pos, last_obs.timestamp>>]_vars

\* the joint vector a session's tx_loop publishes: "joint_pos": q
SessionVector(s) == q

\* C4: a command handled on one session never changes the joint vector another open
\* session publishes.
C4_SessionsIndependent ==
    [][\A s \in Sessions : \A t \in Sessions \ {s} : \A msg \in CmdFrames :
          (RxLoop(s, msg) /\ conn[t] = "open" /\ tx[t] = "run")
             => SessionVector(t)' = SessionVector(t)]_vars

\* C5 as stated: with no target entry in the action, the command equals the previous
\* cached vector exactly under every configuration of limits, with a warning and no
\* failure.
C5_EmptyActionKeepsPrevious ==
    [][\A action \in EmptyActions :
          SendAction(action)
             => /\ payload'[1].target = PosSeq(last_obs.pos)
                /\ ret'.val = <<last_obs.pos>>
                /\ ret'.warn
                /\ ret'.exc = "none"]_vars

\* the value v moved into [lo, hi]
Into(v, lo, hi) == IF v < lo THEN lo ELSE IF v > hi THEN hi ELSE v

\* C5 amended: with no target entry in the action, each joint of the command is the
\* previous cached position moved into the joint's absolute bounds when absolute
\* bounds are configured, and the previous position itself when they are not; the
\* call warns and does not fail.
C5_EmptyActionHoldsWithinBounds ==
    [][\A action \in EmptyActions :
          SendAction(action)
             => /\ \A i \in 1..Len(joint_names) :
                      payload'[1].target[i] =
                         IF AbsConfigured(cfg)
                         THEN Into(last_obs.pos[joint_names[i]],
                                   cfg.joint_min[1][i], cfg.joint_max[1][i])
                         ELSE last_obs.pos[joint_names[i]]
                /\ ret'.val = <<last_obs'.pos>>
                /\ PosSeq(last_obs'.pos) = payload'[1].target
                /\ ret'.warn
                /\ ret'.exc = "none"]_vars

\* C5 witness: the first call had no target entry, warned, and its result differs
\* from the initial zeros because the absolute bounds exclude them.
C5_EmptyActionClamped ==
    /\ seq = 1
    /\ ret.op = "send_action"
    /\ ret.warn
    /\ AbsConfigured(cfg)
    /\ payload[1].target[1] # 0

\* the action of the spec's scenario A: both joints far out, in opposite directions
ScenarioA == Key("a", ".pos") :> MaxPos @@ Key("b", ".pos") :> -MaxPos

\* C6: with a relative limit and no absolute bounds, every command stays within the
\* limit of the previous cached vector, |target_j - P_j| <= r_j, and a target out of
\* range is clamped toward P: from zeros with limit 1, scenario A gives <<1, -1>>.
C6_RelativeStepBound ==
    [][(SendStep /\ RelConfigured(cfg) /\ ~AbsConfigured(cfg))
          => /\ \A i \in 1..Len(joint_names) :
                   Abs(payload'[1].target[i] - last_obs.pos[joint_names[i]])
                      <= cfg.max_relative_target.cap[joint_names[i]]
             /\ (SendAction(ScenarioA) /\ cfg.max_relative_target = RelFloat(1)
                    /\ last_obs.pos = InitObs(0).pos)
                   => payload'[1].target = <<1, -1>>
             /\ ret'.exc = "none"]_vars

\* C6 witness: with the limit 1 for all joints, the first command was clamped to
\* <<1, -1>> (joint "b" was asked to go to -MaxPos or beyond the limit).
C6_ClampedTowardPrevious ==
    /\ cfg = Config(RelFloat(1), None, None)
    /\ seq = 1
    /\ ret.op = "send_action"
    /\ payload[1].target = <<1, -1>>

\* C7: with absolute bounds configured, every target value of every command lies in
\* [joint_min, joint_max] of its joint, with or without a relative limit and from
\* any previous cached vector.
C7_AbsoluteBounds ==
    (payload # None /\ AbsConfigured(cfg))
       => \A i \in 1..Len(joint_names) :
             /\ cfg.joint_min[1][i] <= payload[1].target[i]
             /\ payload[1].target[i] <= cfg.joint_max[1][i]

\* C7 witness: relative limit and absolute bounds both configured, the previous
\* vector (the initial zeros) outside the bounds of joint "a", and a command sent.
C7_CommandFromOutsideBounds ==
    /\ seq = 1
    /\ payload # None
    /\ RelConfigured(cfg)
    /\ AbsConfigured(cfg)
    /\ cfg.joint_min[1][1] > 0
    /\ payload[1].target[1] = cfg.joint_min[1][1]

\* a command frame whose target is a list of the wrong length
LengthMismatch(msg) ==
    /\ msg.json = "object" /\ msg.type = "cmd" /\ msg.mode = "joint_position"
    /\ msg.target # None /\ msg.target[1].list
    /\ Len(msg.target[1].items) # Len(JOINT_NAMES)

\* a well-formed command frame
WellFormedCmd(msg) ==
    /\ msg.json = "object" /\ msg.type = "cmd" /\ msg.mode = "joint_position"
    /\ msg.target # None /\ msg.target[1].list
    /\ Len(msg.target[1].items) = Len(JOINT_NAMES)
    /\ \A i \in 1..Len(JOINT_NAMES) : msg.target[1].items[i].k = "num"

\* C8: a command whose target length differs from the joint count is rejected: q
\* keeps its value and the session goes on; a well-formed command received on the
\* session, also right after a rejection, is applied: q is its target.
C8_LengthMismatchRejected ==
    [][\A s \in Sessions : \A msg \in CmdFrames :
          RxLoop(s, msg)
             => /\ LengthMismatch(msg)
                   => /\ q' = q
                      /\ rx'[s] = "run" /\ hd'[s] = "run" /\ conn'[s] = conn[s]
                      /\ log'[Len(log')] = "bad target len"
                /\ WellFormedCmd(msg)
                   => /\ q' = msg.target[1].items
                      /\ rx'[s] = "run"
                      /\ log'[Len(log')] = "cmd"]_vars

\* C8 witness: session A, alone, had a command rejected for its length and the next
\* frame, a well-formed command, applied.
C8_AppliedAfterRejection ==
    /\ conn["B"] = "none"
    /\ rx["A"] = "run"
    /\ log = <<"bad target len", "cmd">>
    /\ q = <<Num(1), Num(MaxPos)>>

\* C9: a send on a closed transport clears the handle and reports the failure; a
\* poll never raises and changes the handle only by clearing it; without a handle
\* every send fails with NotConnected and leaves none, only a successful connect
\* attempt stores one, and connect() is then not rejected as AlreadyConnected.
C9_ClosedTransportClearsHandle ==
    [][/\ SendStep
             => /\ (is_connected /\ link = "closed")
                   => (ws' = NoHandle /\ ret'.send = "TransportClosed")
                /\ (is_connected /\ link = "open")
                   => (ws' = ws /\ ret'.send = "none")
                /\ ~is_connected
                   => (ws' = NoHandle /\ ret'.send = "NotConnected")
       /\ GetObservation
             => (ret'.exc = "none" /\ (ws' # ws => ws' = NoHandle))
       /\ (~is_connected /\ ws' # NoHandle)
             => (cpc = "connecting" /\ ret'.op = "connect" /\ ret'.exc = "none")
       /\ (ConnectCall /\ ~is_connected)
             => (ret'.exc # "AlreadyConnected" /\ cpc' = "connecting")]_vars

\* C9 witness: a send found the transport closed: it reported TransportClosed and
\* the handle is gone.
C9_SendFoundTransportClosed ==
    /\ ret.op = "send_action"
    /\ ret.send = "TransportClosed"
    /\ ~is_connected
    /\ conns > 0

\* C10: connect() on a connected bridge raises AlreadyConnected, makes no attempt
\* and leaves the handle and its transport as they are.
C10_AlreadyConnected ==
    [][(ConnectCall /\ is_connected)
          => /\ ret'.exc = "AlreadyConnected"
             /\ ret'.op = "connect"
             /\ ws' = ws
             /\ cpc' = "idle"
             /\ UNCHANGED <<attempt, conns, link, inbox>>]_vars

\* C10 witness: connect() was rejected while a handle is held.
C10_RejectedWhileConnected ==
    /\ ret.op = "connect"
    /\ ret.exc = "AlreadyConnected"
    /\ is_connected
    /\ cpc = "idle"

\* C11: disconnect() without a handle raises NotConnected and changes nothing; with
\* a handle, the handle is cleared when the call ends, whether close() succeeded,
\* found the transport closed already, or raised.
C11_DisconnectClearsHandle ==
    [][\A close_raises \in BOOLEAN :
          Disconnect(close_raises)
             => /\ ~is_connected
                   => /\ ret'.exc = "NotConnected"
                      /\ UNCHANGED <<cfg, ws, link, inbox, seq, last_obs, cpc, attempt,
                                     payload, now, conns>>
                /\ is_connected
                   => /\ ws' = NoHandle
                      /\ ret'.exc # "NotConnected"
                      /\ UNCHANGED <<seq, last_obs, payload>>]_vars

\* C11 witness: disconnect() ended with the error of close() and no handle is left,
\* on a bridge that had connected.
C11_HandleClearedOnCloseError ==
    /\ ret.op = "disconnect"
    /\ ret.exc = "CloseError"
    /\ ~is_connected
    /\ conns > 0
    /\ cpc = "idle"

\* the frame f names the joint jn: jn is a key of the name_to_val that
\* get_observation builds from a state frame
NamesJoint(f, jn) ==
    /\ f.json = "object"
    /\ f.type = "state"
    /\ \E i \in 1..Len(NameToVal(f).items) : NameToVal(f).items[i][1] = jn

\* C12: the cache always holds exactly one position per configured joint and one
\* timestamp, from construction on; a state frame that names a joint which is not
\* configured adds no entry, and a joint the frame does not name keeps its position.
C12_CacheOneEntryPerJoint ==
    /\ [](DOMAIN last_obs.pos = Joints /\ DOMAIN last_obs = {"pos", "timestamp"})
    /\ [][(GetObservation /\ inbox # <<>>)
             => \A jn \in Joints :
                   ~NamesJoint(Head(inbox), jn) => last_obs'.pos[jn] = last_obs.pos[jn]]_vars

\* C12 witness: get_observation has returned, with a state frame pending that names
\* "zz" and "a" but not "b", a cache of one entry per configured joint in which "b"
\* has the position a command gave it.
C12_UnknownNameSkipped ==
    /\ ret.op = "get_observation"
    /\ inbox # <<>>
    /\ Head(inbox).type = "state"
    /\ Head(inbox).names = Some(<<"a", "zz">>)
    /\ ~NamesJoint(Head(inbox), "b")
    /\ DOMAIN ret.val[1] = Joints
    /\ last_obs.pos["b"] = MaxPos
    /\ seq > 0

\* A frame C13 lists as malformed: invalid JSON, a JSON value that is no object, a
\* type other than cmd, an unknown mode, or a target that is missing, no list, or of
\* the wrong length.
MalformedCmd(msg) ==
    \/ msg.json # "object"
    \/ msg.type # "cmd"
    \/ msg.mode # "joint_position"
    \/ msg.target = None
    \/ ~msg.target[1].list
    \/ Len(msg.target[1].items) # Len(JOINT_NAMES)

\* C13: rx_loop never ends because of a malformed frame: it rejects the frame, leaves
\* q unchanged and stays ready for the next frame of the session.
C13_MalformedFrameKeepsSession ==
    [][\A s \in Sessions : \A msg \in CmdFrames :
          (RxLoop(s, msg) /\ MalformedCmd(msg))
             => (q' = q /\ rx'[s] = "run")]_vars

\* the targets of the commands that pass rx_loop's checks and are written to q
AppliedTargets ==
    {msg.target[1].items : msg \in {m \in CmdFrames : ~MalformedCmd(m)}}

\* C14: every state frame a session published carries the initial vector or the
\* complete target of one command; the same holds for q at every moment a tx_loop
\* may read it.
C14_NoTornRead ==
    /\ q \in {InitQ} \cup AppliedTargets
    /\ \A s \in Sessions :
          pub[s] # None => pub[s][1].joint_pos[1].items \in {InitQ} \cup AppliedTargets

\* C14 witness: a session published the target of one command and rx_loop has since
\* written the target of another one to q.
C14_PublishedBetweenCommands ==
    /\ pub["A"] # None
    /\ pub["A"][1].joint_pos[1].items = <<Num(1), Num(MaxPos)>>
    /\ q = <<Num(MaxPos), Num(1)>>
    /\ tx["A"] = "run"

\* C15: when the send inside send_action fails (closed transport, or no handle), the
\* call still returns and the cache is updated as after a successful send: every
\* cached position is the command's target, the timestamp the command's.
C15_OptimisticUpdateOnFailedSend ==
    [][(SendStep /\ (~is_connected \/ link = "closed"))
          => /\ ret'.op = "send_action"
             /\ ret'.exc = "none"
             /\ ret'.send \in {"NotConnected", "TransportClosed"}
             /\ PosSeq(last_obs'.pos) = payload'[1].target
             /\ last_obs'.timestamp = payload'[1].timestamp
             /\ ret'.val = <<last_obs'.pos>>]_vars

\* C15 witness: a send without a handle failed, and the cache holds the target of
\* that command, which moved joint "a" away from its initial position.
C15_CacheFollowsUndeliveredCommand ==
    /\ ret.op = "send_action"
    /\ ret.send = "NotConnected"
    /\ ret.exc = "none"
    /\ conns = 0
    /\ PosSeq(last_obs.pos) = payload[1].target
    /\ last_obs.pos["a"] # 0

\* C16: the k-th call of send_action builds the command with seq = k, whatever
\* connect, disconnect, get_observation, failed sends and reconnects come in between:
\* no command exists before the first call, the last command carries the counter,
\* a step that builds a command increments the counter by one and stamps the new
\* value, and no other step changes the counter.
C16_SequenceNumbersCountCalls ==
    /\ [](/\ (payload = None) <=> (seq = 0)
          /\ payload # None => payload[1].seq = seq)
    /\ [][/\ payload' # payload
                => (seq' = seq + 1 /\ payload'[1].seq = seq + 1 /\ ret'.op = "send_action")
          /\ payload' = payload => seq' = seq]_vars

\* C16 witness: the second command was built without a handle, after the bridge
\* had been connected and lost its connection: it carries seq = 2.
C16_SecondCommandAfterConnectionLoss ==
    /\ seq = 2
    /\ payload[1].seq = 2
    /\ ret.op = "send_action"
    /\ ret.send = "NotConnected"
    /\ conns = 1

\* the action without the keys that are not '<configured joint>.pos'
ConfiguredPart(action) ==
    [k \in {Key(jn, ".pos") : jn \in Joints} \cap DOMAIN action |-> action[k]]

\* C17: for every action, the command lists the configured joints in their order
\* with one target each; a joint without an entry in the action holds its previous
\* cached position (moved into its absolute bounds when they are configured); keys
\* that name no configured joint change nothing in the command.
C17_CommandListsEveryJoint ==
    [][SendStep
          => \A action \in Actions :
                SendAction(action)
                   => /\ payload'[1].names = joint_names
                      /\ Len(payload'[1].target) = Len(joint_names)
                      /\ DOMAIN ret'.val[1] = Joints
                      /\ \A i \in 1..Len(joint_names) :
                            Key(joint_names[i], ".pos") \notin DOMAIN action
                               => payload'[1].target[i] =
                                     IF AbsConfigured(cfg)
                                     THEN Into(last_obs.pos[joint_names[i]],
                                               cfg.joint_min[1][i], cfg.joint_max[1][i])
                                     ELSE last_obs.pos[joint_names[i]]
                      /\ payload'[1].target = Shape(ConfiguredPart(action), last_obs, cfg)]_vars

\* C17 witness: with a relative limit of 1 for every joint, the second command has
\* "a" one step and "b" two steps away from the zeros of construction: one of the
\* two actions had no entry for "a", which held its cached position.
C17_OmittedJointHolds ==
    /\ cfg = Config(RelFloat(1), None, None)
    /\ seq = 2
    /\ ret.op = "send_action"
    /\ ~ret.warn
    /\ payload[1].names = joint_names
    /\ payload[1].target = <<1, -2>>

\* the value v lies in [lo, hi]
Within(v, lo, hi) == lo <= v /\ v <= hi

\* how far the absolute clamp min(max(v, lo), hi) moves the value v
Dist(v, lo, hi) == Abs(Clamp(v, lo, hi) - v)

\* C20 as stated: with a relative limit and absolute bounds configured, every command
\* is within the relative limit of the cached vector P, whatever P is.
C20_RelativeBoundWithBothLimits ==
    [][(SendStep /\ RelConfigured(cfg) /\ AbsConfigured(cfg))
          => \A i \in 1..Len(joint_names) :
                Abs(payload'[1].target[i] - last_obs.pos[joint_names[i]])
                   <= cfg.max_relative_target.cap[joint_names[i]]]_vars

\* C20 amended: with both configured, the relative bound holds for every joint whose
\* cached position lies within its absolute bounds; for a joint whose cached position
\* lies outside them the target lies within the bounds, at most the larger of the
\* limit and the distance from the cached position to the bounds away from it.
C20_RelativeBoundFromWithinBounds ==
    [][(SendStep /\ RelConfigured(cfg) /\ AbsConfigured(cfg))
          => \A i \in 1..Len(joint_names) :
                LET P == last_obs.pos[joint_names[i]]
                    t == payload'[1].target[i]
                    r == cfg.max_relative_target.cap[joint_names[i]]
                    lo == cfg.joint_min[1][i]
                    hi == cfg.joint_max[1][i]
                IN  /\ Within(P, lo, hi) => Abs(t - P) <= r
                    /\ Within(t, lo, hi)
                    /\ Abs(t - P) <= Max2(r, Dist(P, lo, hi))]_vars

\* C20 witness: limit 1 for "a" and bounds [-1, 1]: the first command began at the
\* zeros of construction, the second one at a position inside the bounds that
\* the first command had set, and moved "a" to the bound.
C20_SecondCommandWithinBounds ==
    /\ seq = 2
    /\ cfg = Config(RelDict([jn \in Joints |-> IF jn = "a" THEN 1 ELSE 2]),
                    Some(<<-1, -1>>), Some(<<1, 1>>))
    /\ ret.op = "send_action"
    /\ ~ret.warn
    /\ payload[1].target = <<1, -1>>

\* the last state frame session s published carries the vector v
Published(s, v) == pub[s] # None /\ pub[s][1].joint_pos[1].items = v

\* C18: while a session's transport stays open, its tx_loop keeps publishing the
\* current q, whether or not commands arrive: again and again the session is either
\* no longer open or its last published frame carries q as it is then.
C18_PublishIndependentOfCommands ==
    \A s \in Sessions : []<>(conn[s] # "open" \/ Published(s, q))

\* C18 witness: an open session that published the initial vector while the only
\* frames received were rejected ones.
C18_PublishedWithoutCommand ==
    /\ conn["A"] = "open"
    /\ tx["A"] = "run"
    /\ Published("A", InitQ)
    /\ log = <<"bad json", "bad target len">>
    /\ conn["B"] = "none"

\* session s has ended: neither loop is running and handle has returned
SessionEnded(s) ==
    /\ rx[s] \in {"done", "failed", "disconnected"}
    /\ tx[s] = "done"
    /\ hd[s] = "returned"

\* C19: once a session's transport is closed, its rx_loop and tx_loop end and its
\* handler returns; the steps that end it leave the other session's transport,
\* loops and handler as they are.
C19_ClosedSessionEnds ==
    /\ \A s \in Sessions : (conn[s] = "closed") ~> SessionEnded(s)
    /\ [][\A s \in Sessions :
             (conn[s] = "closed"
                 /\ ((\E abnormal \in BOOLEAN : RxEnd(s, abnormal))
                        \/ TxLoop(s) \/ HandleReturn(s)))
                => \A t \in Sessions \ {s} :
                      /\ conn'[t] = conn[t]
                      /\ hd'[t] = hd[t]
                      /\ rx'[t] = rx[t]
                      /\ tx'[t] = tx[t]]_vars

\* C19 witness: session A ended after its transport was closed, while session B is
\* open with both loops running and has published.
C19_OneSessionEndedOtherRuns ==
    /\ conn["A"] = "closed"
    /\ SessionEnded("A")
    /\ rx["A"] = "done"
    /\ conn["B"] = "open"
    /\ rx["B"] = "run"
    /\ tx["B"] = "run"
    /\ hd["B"] = "run"
    /\ pub["B"] # None

====
